---- MODULE Spec2Model ----
(***************************************************************************)
(* Model of continuum/datasets/base.py: the dataset adapters               *)
(* _ContinuumDataset, PyTorchDataset, InMemoryDataset, ImageFolderDataset. *)
(*                                                                         *)
(* One adapter object is constructed per behaviour; afterwards the caller  *)
(* retrieves data and reads / assigns data_type in any order.  A Python    *)
(* exception is modelled as an error name carried in place of the value.   *)
(* Python values keep a tag so that a conversion is visible: a str is a    *)
(* sequence of code points, an array is [tag, dtype, elems].               *)
(***************************************************************************)
EXTENDS Integers, Sequences, FiniteSets, TLC

VARIABLES
    inst,       \* the constructed adapter object (NoObj before / after a failed construction)
    ctor,       \* the constructor call: its arguments and how it ended
    events,     \* what has run so far: hook invocations, wrapped-object
                \* instantiations and folder scans, each with its outcome
    assigned,   \* the value of the most recent assignment to data_type
    last,       \* the last operation invoked on the object and its outcome
    firstGet,   \* outcome of the first retrieval on this object (NoCall before it)
    retrievals  \* number of retrievals so far, counted up to MaxRetrievals

vars == <<inst, ctor, events, assigned, last, firstGet, retrievals>>

----------------------------------------------------------------------------
\* Bounds of the model

\* longest array handed to InMemoryDataset / held by a wrapped dataset
MaxLen == 2
\* most files a folder scan returns
MaxFiles == 2
\* retrievals are counted up to this number
MaxRetrievals == 2

----------------------------------------------------------------------------
\* Python values

NoneVal == [tag |-> "None"]
Unset == [tag |-> "unset"]
NoObj == [kind |-> "none"]
NoCall == [op |-> "none"]

Array(dtype, elems) == [tag |-> "ndarray", dtype |-> dtype, elems |-> elems]
Tensor(elems) == [tag |-> "tensor", elems |-> elems]

\* len(v) of an array
PyLen(v) == Len(v.elems)

\* a returned triple, or a raised exception
Ok(x, y, t) == [status |-> "ok", x |-> x, y |-> y, t |-> t]
Value(v) == [status |-> "ok", value |-> v]
Raise(e) == [status |-> e]

SeqsUpTo(S, n) == UNION {[1..k -> S] : k \in 0..n}

\* one entry of the log: a step that ran and the exception it raised ("none": it returned)
Event(step, err) == [step |-> step, err |-> err]

\* how many times a step has run
Count(log, step) == Cardinality({i \in 1..Len(log) : log[i].step = step})

----------------------------------------------------------------------------
\* The environment the adapters run in

\* behaviours of the acquisition hook _download, one outcome per invocation
\* (the hook is an overridable method: the ones of this file do nothing,
\* a subclass one touches the network or the disk and may raise)
HookOutcomes == {"ok", "raise"}

\* str values: sequences of code points
AsciiPath(n) == [i \in 1..n |-> 97 + (i % 26)]
PathLens == {3, 255, 300}
NonAsciiPath == <<97, 233, 98>>
Paths == {AsciiPath(n) : n \in PathLens} \cup {NonAsciiPath}

\* class indices a folder scan can produce (one per class subfolder)
Labels == {0, 32767, 32768}

\* dataset.imgs after a scan: at least one file (the scan raises when it finds
\* none), distinct files, classes visited in index order
RawData ==
    {r \in SeqsUpTo(Paths \X Labels, MaxFiles) :
        /\ Len(r) > 0
        /\ \A i, j \in 1..Len(r) :
            i < j => (r[i][1] # r[j][1] /\ r[i][2] <= r[j][2])}

\* what torchdata.ImageFolder(folder) does for a given disk content
ScanOutcomes == {Raise("FileNotFoundError")} \cup {Value(r) : r \in RawData}

\* wrapped dataset classes: what attributes their objects expose and hold
Pixels == {7}
Targets == {0, 1}
DatasetTypes ==
    {[attrs |-> a, data |-> d, targets |-> g, fails |-> FALSE] :
        a \in {{"data", "targets"}, {"data"}},
        d \in SeqsUpTo(Pixels, MaxLen), g \in SeqsUpTo(Targets, MaxLen)}
    \cup {[attrs |-> {}, data |-> <<>>, targets |-> <<>>, fails |-> TRUE]}

\* dataset_type(data_path, download=..., train=...)
Instantiate(dataset_type, data_path, download, train) ==
    IF dataset_type.fails THEN Raise("RuntimeError")
    ELSE Value([root |-> data_path, download |-> download, train |-> train,
                attrs |-> dataset_type.attrs,
                data |-> Tensor(dataset_type.data),
                targets |-> Tensor(dataset_type.targets)])

\* np.array(v)
NpArray(v) == Array("int64", v.elems)

----------------------------------------------------------------------------
\* Construction.  A constructor runs over a context: the object being
\* filled in, the pending exception, the hook outcomes still to come and
\* the log of what has run.

NewObj(kind) ==
    [kind |-> kind, data_path |-> Unset, download |-> Unset, train |-> Unset,
     dataset_type |-> Unset, dataset |-> Unset, folder |-> Unset,
     data |-> Unset, p_data_type |-> Unset]

NewCtx(kind, hook) ==
    [obj |-> NewObj(kind), err |-> "none", hook |-> hook, events |-> <<>>]

\* a hook call wrapped in try / except: the exception is logged and dropped
DownloadSwallows(c) ==
    LET e == IF Head(c.hook) = "raise" THEN "AcquisitionError" ELSE "none"
    IN  [c EXCEPT !.events = Append(@, Event("download", e)),
                  !.hook = Tail(@)]

\* self._download(): the next outcome of the hook; an exception is not caught
Download(c) ==
    LET e == IF Head(c.hook) = "raise" THEN "AcquisitionError" ELSE "none"
    IN  [c EXCEPT !.events = Append(@, Event("download", e)),
                  !.hook = Tail(@),
                  !.err = e]

\* _ContinuumDataset.__init__(self, data_path, download)
ContinuumInit(c, data_path, download) ==
    LET c1 == [c EXCEPT !.obj.data_path = data_path, !.obj.download = download]
    IN  IF c1.obj.download THEN Download(c1) ELSE c1

\* a constructor that asks the wrapped class for the train split whatever train is
PyTorchInitIgnoresTrain(data_path, download, dataset_type, train, hook) ==
    LET c1 == ContinuumInit(NewCtx("PyTorchDataset", hook), data_path, download)
    IN  IF c1.err # "none" THEN c1
        ELSE
        LET c2 == [c1 EXCEPT !.obj.dataset_type = dataset_type, !.obj.train = train]
            made == Instantiate(c2.obj.dataset_type, c2.obj.data_path,
                                c2.obj.download, TRUE)
        IN  IF made.status # "ok"
            THEN [c2 EXCEPT !.events = Append(@, Event("create", made.status)),
                            !.err = made.status]
            ELSE [c2 EXCEPT !.events = Append(@, Event("create", "none")),
                            !.obj.dataset = made.value]

\* PyTorchDataset.__init__(self, data_path, download, dataset_type=, train=)
PyTorchInit(data_path, download, dataset_type, train, hook) ==
    LET c1 == ContinuumInit(NewCtx("PyTorchDataset", hook), data_path, download)
    IN  IF c1.err # "none" THEN c1
        ELSE
        LET c2 == [c1 EXCEPT !.obj.dataset_type = dataset_type, !.obj.train = train]
            made == Instantiate(c2.obj.dataset_type, c2.obj.data_path,
                                c2.obj.download, c2.obj.train)
        IN  IF made.status # "ok"
            THEN [c2 EXCEPT !.events = Append(@, Event("create", made.status)),
                            !.err = made.status]
            ELSE [c2 EXCEPT !.events = Append(@, Event("create", "none")),
                            !.obj.dataset = made.value]

\* InMemoryDataset.__init__(self, x_, y_, data_type, t_, train, data_path=, download=)
InMemoryInit(x_, y_, data_type, t_, train, data_path, download, hook) ==
    LET c0 == NewCtx("InMemoryDataset", hook)
        c1 == [c0 EXCEPT !.obj.train = train,
                         !.obj.data = <<x_, y_, t_>>,
                         !.obj.p_data_type = data_type]
    IN  ContinuumInit(c1, data_path, download)

\* ImageFolderDataset.__init__(self, folder, train, download, data_path=)
ImageFolderInit(folder, train, download, data_path, hook, scan) ==
    LET c1 == ContinuumInit(NewCtx("ImageFolderDataset", hook), data_path, download)
    IN  IF c1.err # "none" THEN c1
        ELSE
        LET c2 == [c1 EXCEPT !.obj.folder = folder, !.obj.train = train]
            c3 == IF download THEN Download(c2) ELSE c2
        IN  IF c3.err # "none" THEN c3
            ELSE IF scan.status # "ok"
            THEN [c3 EXCEPT !.events = Append(@, Event("scan", scan.status)),
                            !.err = scan.status]
            ELSE [c3 EXCEPT !.events = Append(@, Event("scan", "none")),
                            !.obj.dataset = [imgs |-> scan.value]]

----------------------------------------------------------------------------
\* Retrieval.  A method returns the object as it leaves it and its outcome.

Returns(self, result) == [self |-> self, result |-> result]

\* width in bytes of an entry of x: dtype "S255"
ItemSize == 255
\* width in bits of an entry of y: dtype np.int16
Int16Bits == 16

Min(a, b) == IF a < b THEN a ELSE b

\* x[i] = path on an array of dtype S255: the str is encoded as ASCII (a code
\* point above 127 raises) and the bytes beyond the item size are dropped
StringSetItem(path) ==
    IF \E i \in 1..Len(path) : path[i] > 127
    THEN Raise("UnicodeEncodeError")
    ELSE Value([tag |-> "bytes", elems |-> SubSeq(path, 1, Min(Len(path), ItemSize))])

\* y[i] = target on an array of dtype int16: the value is kept modulo 2^16,
\* as a signed number (the numpy 1.x this code was written for; numpy 2
\* raises OverflowError for a value outside -2^15 .. 2^15 - 1 instead)
Int16SetItem(target) ==
    LET m == target % (2 ^ Int16Bits)
    IN  IF m >= 2 ^ (Int16Bits - 1) THEN m - 2 ^ Int16Bits ELSE m

\* a _format whose loop misses the first pair's label
FormatOffByOne(raw_data) ==
    LET n == Len(raw_data)
        xs == [i \in 1..n |-> StringSetItem(raw_data[i][1])]
        ys == [i \in 1..(n - 1) |-> Int16SetItem(raw_data[i + 1][2])]
    IN  IF \E i \in 1..n : xs[i].status # "ok"
        THEN Raise("UnicodeEncodeError")
        ELSE Ok(Array("S255", [i \in 1..n |-> xs[i].value]),
                Array("int16", ys),
                NoneVal)

\* ImageFolderDataset._format(raw_data)
Format(raw_data) ==
    LET n == Len(raw_data)
        xs == [i \in 1..n |-> StringSetItem(raw_data[i][1])]
        ys == [i \in 1..n |-> Int16SetItem(raw_data[i][2])]
    IN  IF \E i \in 1..n : xs[i].status # "ok"
        THEN Raise(xs[CHOOSE i \in 1..n :
                        /\ xs[i].status # "ok"
                        /\ \A j \in 1..(i - 1) : xs[j].status = "ok"].status)
        ELSE Ok(Array("S255", [i \in 1..n |-> xs[i].value]),
                Array("int16", ys),
                NoneVal)

\* PyTorchDataset.get_data, a property: evaluated by reading the attribute
PyTorchGetData(self) ==
    IF ~ ({"data", "targets"} \subseteq self.dataset.attrs)
    THEN Returns(self, Raise("AttributeError"))
    ELSE Returns(self, Ok(NpArray(self.dataset.data),
                          NpArray(self.dataset.targets),
                          NoneVal))

\* a get_data that returns no task ids
InMemoryGetDataDropsT(self) ==
    Returns(self, Ok(self.data[1], self.data[2], NoneVal))

\* InMemoryDataset.get_data(self)
InMemoryGetData(self) ==
    Returns(self, Ok(self.data[1], self.data[2], self.data[3]))

\* a get_data that hands the scanned pairs over and keeps none
ImageFolderGetDataConsumes(self) ==
    Returns([self EXCEPT !.dataset.imgs = <<>>], Format(self.dataset.imgs))

\* ImageFolderDataset.get_data(self)
ImageFolderGetData(self) ==
    Returns(self, Format(self.dataset.imgs))

\* the retrieval each variant offers: obj.get_data for the property,
\* obj.get_data() for the methods
GetData(self) ==
    CASE self.kind = "PyTorchDataset" -> PyTorchGetData(self)
      [] self.kind = "InMemoryDataset" -> InMemoryGetData(self)
      [] self.kind = "ImageFolderDataset" -> ImageFolderGetData(self)

\* obj.get_data(train), the invocation _ContinuumDataset.get_data declares:
\* the property is evaluated and its value, a tuple, is then called; the
\* methods take no argument besides self
GetDataTrain(self, train) ==
    CASE self.kind = "PyTorchDataset" ->
            LET r == PyTorchGetData(self)
            IN  IF r.result.status # "ok" THEN r
                ELSE Returns(r.self, Raise("TypeError"))
      [] self.kind = "InMemoryDataset" -> Returns(self, Raise("TypeError"))
      [] self.kind = "ImageFolderDataset" -> Returns(self, Raise("TypeError"))

----------------------------------------------------------------------------
\* data_type

DataTypes == {"image_array", "image_path"}

\* obj.data_type
DataType(self) ==
    CASE self.kind = "PyTorchDataset" -> "image_array"
      [] self.kind = "InMemoryDataset" -> self.p_data_type
      [] self.kind = "ImageFolderDataset" -> "image_path"

\* a setter that stores nothing
SetDataTypeNoStore(self, data_type) ==
    IF self.kind = "InMemoryDataset"
    THEN Returns(self, Value(NoneVal))
    ELSE Returns(self, Raise("AttributeError"))

\* obj.data_type = data_type: only InMemoryDataset defines a setter
SetDataType(self, data_type) ==
    IF self.kind = "InMemoryDataset"
    THEN Returns([self EXCEPT !.p_data_type = data_type], Value(NoneVal))
    ELSE Returns(self, Raise("AttributeError"))

----------------------------------------------------------------------------
\* The state machine

DataPaths == {"", "/data"}
Splits == {"train", "test"}
Folders == {"/imgs"}

\* arrays a caller hands to InMemoryDataset
XArrays == {Array("uint8", d) : d \in SeqsUpTo(Pixels, MaxLen)}
YArrays == {Array("int64", d) : d \in SeqsUpTo(Targets, MaxLen)}
TArrays == {NoneVal} \cup {Array("int64", d) : d \in SeqsUpTo({0}, MaxLen)}

NotCalled == [kind |-> "none"]

Init ==
    /\ inst = NoObj
    /\ ctor = NotCalled
    /\ events = <<>>
    /\ assigned = Unset
    /\ last = NoCall
    /\ firstGet = NoCall
    /\ retrievals = 0

\* the end of a constructor call: the caller holds the object only if no
\* exception left the constructor
Constructed(kind, args, c) ==
    /\ ctor' = [kind |-> kind, args |-> args, err |-> c.err]
    /\ inst' = IF c.err = "none" THEN c.obj ELSE NoObj
    /\ events' = c.events
    /\ UNCHANGED <<assigned, last, firstGet, retrievals>>

NewPyTorchDataset ==
    /\ ctor = NotCalled
    /\ \E data_path \in DataPaths, download \in BOOLEAN, train \in BOOLEAN,
       dataset_type \in DatasetTypes, hook \in [1..1 -> HookOutcomes] :
        Constructed("PyTorchDataset",
                    [data_path |-> data_path, download |-> download,
                     dataset_type |-> dataset_type, train |-> train],
                    PyTorchInit(data_path, download, dataset_type, train, hook))

NewInMemoryDataset ==
    /\ ctor = NotCalled
    /\ \E x_ \in XArrays, y_ \in YArrays, t_ \in TArrays, data_type \in DataTypes,
       train \in Splits, download \in BOOLEAN, hook \in [1..1 -> HookOutcomes] :
        Constructed("InMemoryDataset",
                    [x_ |-> x_, y_ |-> y_, t_ |-> t_, data_type |-> data_type,
                     train |-> train, data_path |-> "", download |-> download],
                    InMemoryInit(x_, y_, data_type, t_, train, "", download, hook))

NewImageFolderDataset ==
    /\ ctor = NotCalled
    /\ \E folder \in Folders, train \in Splits, download \in BOOLEAN,
       hook \in [1..2 -> HookOutcomes], scan \in ScanOutcomes :
        Constructed("ImageFolderDataset",
                    [folder |-> folder, train |-> train, download |-> download,
                     data_path |-> ""],
                    ImageFolderInit(folder, train, download, "", hook, scan))

\* the caller retrieves the data
CallGetData ==
    /\ inst # NoObj
    /\ LET r == GetData(inst)
       IN  /\ inst' = r.self
           /\ last' = [op |-> "get_data", result |-> r.result]
           /\ firstGet' = IF firstGet = NoCall THEN last' ELSE firstGet
    /\ retrievals' = Min(retrievals + 1, MaxRetrievals)
    /\ UNCHANGED <<ctor, events, assigned>>

\* the caller retrieves the data of a split, as the base class declares it
CallGetDataTrain ==
    /\ inst # NoObj
    /\ \E train \in BOOLEAN :
        LET r == GetDataTrain(inst, train)
        IN  /\ inst' = r.self
            /\ last' = [op |-> "get_data_train", result |-> r.result]
    /\ UNCHANGED <<ctor, events, assigned, firstGet, retrievals>>

\* the caller reads data_type
ReadDataType ==
    /\ inst # NoObj
    /\ last' = [op |-> "data_type", result |-> Value(DataType(inst))]
    /\ UNCHANGED <<inst, ctor, events, assigned, firstGet, retrievals>>

\* the caller assigns data_type
WriteDataType ==
    /\ inst # NoObj
    /\ \E data_type \in DataTypes :
        LET r == SetDataType(inst, data_type)
        IN  /\ inst' = r.self
            /\ last' = [op |-> "set_data_type", result |-> r.result]
            /\ assigned' = [tag |-> "str", value |-> data_type]
    /\ UNCHANGED <<ctor, events, firstGet, retrievals>>

Next ==
    \/ NewPyTorchDataset
    \/ NewInMemoryDataset
    \/ NewImageFolderDataset
    \/ CallGetData
    \/ CallGetDataTrain
    \/ ReadDataType
    \/ WriteDataType

Spec == Init /\ [][Next]_vars

----------------------------------------------------------------------------
\* Properties

\* the last operation was a retrieval that returned a triple
Retrieved == last.op = "get_data" /\ last.result.status = "ok"

\* the content of a str and of a bytes value agree
SameText(bytes, str) == bytes.tag = "bytes" /\ bytes.elems = str

\* the longest prefix of a path that fits an entry of x
Fitted(path) == IF Len(path) <= ItemSize THEN path ELSE SubSeq(path, 1, ItemSize)

\* C1 as stated: whatever the variant and whatever it was constructed with,
\* a returned triple has len(x) = len(y), and len(t) = len(x) when t is
\* not None.
C1_EqualLengths ==
    Retrieved =>
        /\ PyLen(last.result.x) = PyLen(last.result.y)
        /\ (last.result.t # NoneVal => PyLen(last.result.t) = PyLen(last.result.x))

\* C1 amended: ImageFolderDataset returns x and y of the length of the
\* scanned list and t = None; InMemoryDataset and PyTorchDataset return
\* arrays as long as the ones supplied (by the caller, by the wrapped
\* object), so the lengths agree whenever the supplied ones do.
C1_LengthsAsSupplied ==
    Retrieved =>
        /\ inst.kind = "ImageFolderDataset" =>
            /\ PyLen(last.result.x) = Len(inst.dataset.imgs)
            /\ PyLen(last.result.y) = Len(inst.dataset.imgs)
            /\ last.result.t = NoneVal
        /\ inst.kind = "InMemoryDataset" =>
            /\ PyLen(last.result.x) = PyLen(ctor.args.x_)
            /\ PyLen(last.result.y) = PyLen(ctor.args.y_)
            /\ (last.result.t = NoneVal) = (ctor.args.t_ = NoneVal)
            /\ (last.result.t # NoneVal =>
                    PyLen(last.result.t) = PyLen(ctor.args.t_))
        /\ inst.kind = "PyTorchDataset" =>
            /\ PyLen(last.result.x) = Len(ctor.args.dataset_type.data)
            /\ PyLen(last.result.y) = Len(ctor.args.dataset_type.targets)
            /\ last.result.t = NoneVal

C1_Witness ==
    /\ Retrieved
    /\ inst.kind = "ImageFolderDataset"
    /\ PyLen(last.result.x) = 2
    /\ PyLen(last.result.y) = 2

\* C2: whatever was assigned to data_type and however often the data was
\* retrieved, InMemoryDataset.get_data returns the triple (x_, y_, t_) the
\* constructor was given, with or without download.
C2_RoundTrip ==
    (inst.kind = "InMemoryDataset" /\ last.op = "get_data") =>
        last.result = Ok(ctor.args.x_, ctor.args.y_, ctor.args.t_)

C2_Witness ==
    /\ inst.kind = "InMemoryDataset"
    /\ last.op = "get_data"
    /\ retrievals >= 2
    /\ assigned # Unset
    /\ inst.p_data_type # ctor.args.data_type
    /\ ctor.args.t_ # NoneVal
    /\ PyLen(ctor.args.x_) > 0
    /\ ctor.args.download

\* C3 as stated: every retrieval of ImageFolderDataset returns, for every
\* scanned path, the path itself when it has at most 255 characters and its
\* first 255 characters otherwise, and raises nothing.
C3_PathsKeptOrTruncated ==
    (inst.kind = "ImageFolderDataset" /\ last.op = "get_data") =>
        /\ last.result.status = "ok"
        /\ PyLen(last.result.x) = Len(inst.dataset.imgs)
        /\ \A i \in 1..Len(inst.dataset.imgs) :
                SameText(last.result.x.elems[i], Fitted(inst.dataset.imgs[i][1]))

\* What holds of the code for C3: when all scanned paths are ASCII, the
\* entries are the paths cut to 255 characters.
TruncationOfAsciiPaths ==
    (inst.kind = "ImageFolderDataset" /\ last.op = "get_data"
        /\ \A i \in 1..Len(inst.dataset.imgs) :
              \A k \in 1..Len(inst.dataset.imgs[i][1]) :
                  inst.dataset.imgs[i][1][k] <= 127) =>
        /\ last.result.status = "ok"
        /\ \A i \in 1..Len(inst.dataset.imgs) :
                SameText(last.result.x.elems[i], Fitted(inst.dataset.imgs[i][1]))

\* C4 as stated: a returned triple of ImageFolderDataset has one entry per
\* scanned pair, y[i] is the label of the i-th pair and x[i] its path.
C4_LabelsKept ==
    (inst.kind = "ImageFolderDataset" /\ Retrieved) =>
        /\ PyLen(last.result.x) = Len(inst.dataset.imgs)
        /\ PyLen(last.result.y) = Len(inst.dataset.imgs)
        /\ last.result.t = NoneVal
        /\ \A i \in 1..Len(inst.dataset.imgs) :
            /\ last.result.y.elems[i] = inst.dataset.imgs[i][2]
            /\ SameText(last.result.x.elems[i], Fitted(inst.dataset.imgs[i][1]))

\* the wrapped object was made once, from the arguments of the adapter
WrappedOnce ==
    /\ Count(events, "create") = 1
    /\ inst.dataset.root = ctor.args.data_path
    /\ inst.dataset.download = ctor.args.download
    /\ inst.dataset.train = ctor.args.train

\* the arrays of the wrapped object's data and targets, and None
WrappedTriple ==
    Ok(Array("int64", ctor.args.dataset_type.data),
       Array("int64", ctor.args.dataset_type.targets),
       NoneVal)

\* C5 as stated: on any constructed PyTorchDataset, reading get_data yields
\* the arrays of the wrapped object's data and targets and None, and the
\* wrapped object was made once with data_path, download and train.
C5_WrappedData ==
    inst.kind = "PyTorchDataset" =>
        /\ WrappedOnce
        /\ last.op = "get_data" => last.result = WrappedTriple

\* C5 amended: the same, for a wrapped object that has the attributes data
\* and targets; when one is missing, reading get_data raises AttributeError.
C5_WrappedDataWhenExposed ==
    inst.kind = "PyTorchDataset" =>
        /\ WrappedOnce
        /\ last.op = "get_data" =>
            IF {"data", "targets"} \subseteq ctor.args.dataset_type.attrs
            THEN last.result = WrappedTriple
            ELSE last.result = Raise("AttributeError")

C5_Witness ==
    /\ inst.kind = "PyTorchDataset"
    /\ Retrieved
    /\ PyLen(last.result.x) > 0
    /\ PyLen(last.result.y) > 0
    /\ ~ ctor.args.train
    /\ ~ ctor.args.download
    /\ ctor.args.data_path = "/data"

\* what a read of data_type has to return: the value last assigned, or the
\* constructor's argument when none was
ExpectedDataType ==
    IF assigned = Unset THEN ctor.args.data_type ELSE assigned.value

\* C6: InMemoryDataset.data_type is the constructor's data_type until it is
\* assigned, and then the value assigned last, whatever else was called.
C6_DataTypeTag ==
    inst.kind = "InMemoryDataset" =>
        /\ DataType(inst) = ExpectedDataType
        /\ last.op = "data_type" => last.result = Value(ExpectedDataType)

C6_Witness ==
    /\ inst.kind = "InMemoryDataset"
    /\ ctor.args.data_type = "image_array"
    /\ assigned # Unset
    /\ assigned.value = "image_path"
    /\ retrievals >= 1
    /\ last.op = "data_type"
    /\ last.result = Value("image_path")

\* C7 as stated: get_data(train) returns a triple on every variant.
C7_GetDataTrainReturns ==
    last.op = "get_data_train" => last.result.status = "ok"

\* C8 as stated: on a constructed adapter the acquisition hook has run once
\* if download is true and never otherwise, at construction and ever after.
C8_DownloadOnce ==
    inst # NoObj =>
        Count(events, "download") = (IF inst.download THEN 1 ELSE 0)

\* C9: a retrieval leaves the object and what has run as they are, and it
\* returns what the first retrieval on the object returned.
C9_RetrievalPure ==
    [][last'.op = "get_data" =>
        /\ inst' = inst
        /\ events' = events
        /\ ctor' = ctor
        /\ (firstGet # NoCall => last'.result = firstGet.result)]_vars

C9_Witness ==
    /\ inst.kind = "ImageFolderDataset"
    /\ last.op = "get_data"
    /\ retrievals >= 2
    /\ Retrieved
    /\ PyLen(last.result.x) > 0

\* C10: a step of the constructor that raises is its last step, what it
\* raised is what the constructor raises, and the caller gets no object.
C10_FailurePropagates ==
    \A k \in 1..Len(events) :
        events[k].err # "none" =>
            /\ k = Len(events)
            /\ ctor.err = events[k].err
            /\ inst = NoObj

C10_Witness ==
    /\ ctor # NotCalled
    /\ ctor.kind = "ImageFolderDataset"
    /\ Len(events) = 1
    /\ events[1] = Event("download", "AcquisitionError")
    /\ inst = NoObj

====
